---------------------------- MODULE Spec2Model ----------------------------
(***************************************************************************)
(* A model of wordle.py: the WordleFilter class (the word list loaded from *)
(* word_frequency.csv, filter_words, get_best_guess) and the game loop of  *)
(* main().                                                                 *)
(*                                                                         *)
(* A word is a sequence of one-character strings.  Python positions are    *)
(* 0-based; a word's letter at Python position pos is word[pos + 1].       *)
(* The Python empty string "" is the empty sequence << >>.                 *)
(*                                                                         *)
(* The model has three entry points, chosen in Init:                       *)
(*   pc = "filter"  a client that appends feedback entries to a log and    *)
(*                  calls filter_words on the whole log;                   *)
(*   pc = "guess"   a client that calls get_best_guess on a candidate list;*)
(*   pc = "start"   main(): the driving loop, played against a hidden      *)
(*                  answer that the game page scores.                      *)
(***************************************************************************)
EXTENDS Integers, Sequences, FiniteSets, TLC

\* ------------------------------------------------------------- constants

WORD_LENGTH == 5

MAX_ATTEMPTS == 6

STARTING_WORD == <<"s", "l", "a", "n", "t">>

\* --------------------------------------------------------------- bounds

\* The longest feedback log the filter_words client builds.
MaxLog == 2

\* The longest candidate list the get_best_guess client passes.
MaxCands == 2

\* The most rows a word file holds.
MaxRows == 2

\* ------------------------------------------------------ bounded inputs

slate == <<"s", "l", "a", "t", "e">>
stale == <<"s", "t", "a", "l", "e">>
Stale == <<"S", "t", "a", "l", "e">>
stall == <<"s", "t", "a", "l", "l">>
least == <<"l", "e", "a", "s", "t">>
steal == <<"s", "t", "e", "a", "l">>
taste == <<"t", "a", "s", "t", "e">>
latte == <<"l", "a", "t", "t", "e">>
eaten == <<"e", "a", "t", "e", "n">>
tea   == <<"t", "e", "a">>

\* The rows a word file is made of: a word and its frequency.  There are a
\* word in upper case, a word of another length, equal frequencies, and a
\* word (stale / Stale) that two rows can give different frequencies.
RowPool ==
    { [word |-> stall, frequency |-> 50],
      [word |-> stale, frequency |-> 10],
      [word |-> Stale, frequency |-> 50],
      [word |-> least, frequency |-> 50],
      [word |-> slate, frequency |-> 20],
      [word |-> tea,   frequency |-> 99] }

\* The sequences over S of length at most n.
SeqsUpTo(S, n) == UNION { [1..k -> S] : k \in 0..n }

WordFiles == SeqsUpTo(RowPool, MaxRows)

\* The letters, positions and statuses of the feedback entries a client of
\* filter_words appends (the page's letters arrive lower-cased, line 206).
FbLetters == {"s", "l"}

Statuses == {"correct", "present", "absent"}

Entries == [pos : 0..(WORD_LENGTH - 1), letter : FbLetters, status : Statuses]

\* The words a client of get_best_guess passes: corpus words, one in upper
\* case, and one no row of RowPool holds.
CandPool == {stall, stale, Stale, least, slate, steal}

\* The hidden answers of the games main() plays.
Answers == {stale, least, slate, steal, STARTING_WORD}

\* ------------------------------------------------------------- helpers

Range(s) == { s[i] : i \in DOMAIN s }

MaxOf(S) == CHOOSE x \in S : \A y \in S : y <= x

MinOf(S) == CHOOSE x \in S : \A y \in S : x <= y

\* str.lower() on one character, for the letters the model uses.
LowerChar(c) ==
    CASE c = "S" -> "s"
      [] c = "T" -> "t"
      [] c = "A" -> "a"
      [] c = "L" -> "l"
      [] c = "E" -> "e"
      [] c = "N" -> "n"
      [] OTHER   -> c

\* str.lower() on a word.
lower(word) == [i \in DOMAIN word |-> LowerChar(word[i])]

\* `letter in word`
In(letter, word) == \E i \in DOMAIN word : word[i] = letter

\* ------------------------------------------------------- WordleFilter

\* _load_words: the rows of the file whose word has WORD_LENGTH characters.
load_words_any_length(file) == file

_load_words(file) ==
    SelectSeq(file, LAMBDA r : Len(r.word) = WORD_LENGTH)

\* correct_pos = {f["pos"]: f["letter"] ... if status == "correct"}: a dict,
\* so of two entries with the same pos the later one stays.
correct_pos(feedback) ==
    LET idx == { i \in DOMAIN feedback : feedback[i].status = "correct" }
    IN  [ p \in { feedback[i].pos : i \in idx } |->
            feedback[MaxOf({ i \in idx : feedback[i].pos = p })].letter ]

\* present_pairs = [(f["pos"], f["letter"]) ... if status == "present"]
present_pairs(feedback) ==
    LET sel == SelectSeq(feedback, LAMBDA f : f.status = "present")
    IN  [ i \in DOMAIN sel |-> <<sel[i].pos, sel[i].letter>> ]

\* known_letters = {f["letter"] ... if status in ["correct", "present"]}
known_letters(feedback) ==
    { feedback[i].letter :
        i \in { j \in DOMAIN feedback :
                  feedback[j].status \in {"correct", "present"} } }

\* absent_letters, without the exclusion of the known letters.
absent_letters_all(feedback) ==
    { feedback[i].letter :
        i \in { j \in DOMAIN feedback : feedback[j].status = "absent" } }

\* absent_letters, a letter being known only by the entries before its own.
absent_letters_one_pass(feedback) ==
    { feedback[i].letter :
        i \in { j \in DOMAIN feedback :
                  /\ feedback[j].status = "absent"
                  /\ feedback[j].letter \notin
                       known_letters(SubSeq(feedback, 1, j - 1)) } }

\* absent_letters = {f["letter"] ... if status == "absent"
\*                                   and f["letter"] not in known_letters}
absent_letters(feedback) ==
    { feedback[i].letter :
        i \in { j \in DOMAIN feedback :
                  /\ feedback[j].status = "absent"
                  /\ feedback[j].letter \notin known_letters(feedback) } }

\* not any(word[pos] != letter for pos, letter in correct_pos.items())
correct_ok(word, feedback) ==
    LET cp == correct_pos(feedback)
    IN  \A p \in DOMAIN cp : word[p + 1] = cp[p]

\* The present check without its position test.
present_ok_anywhere(word, feedback) ==
    LET pp == present_pairs(feedback)
    IN  \A i \in DOMAIN pp : In(pp[i][2], word)

\* The present check with any in the place of all.
present_ok_any(word, feedback) ==
    LET pp == present_pairs(feedback)
    IN  \/ pp = << >>
        \/ \E i \in DOMAIN pp :
              In(pp[i][2], word) /\ word[pp[i][1] + 1] # pp[i][2]

\* all(letter in word and word[pos] != letter for pos, letter in present_pairs)
present_ok(word, feedback) ==
    LET pp == present_pairs(feedback)
    IN  \A i \in DOMAIN pp :
          In(pp[i][2], word) /\ word[pp[i][1] + 1] # pp[i][2]

\* not any(letter in word for letter in absent_letters)
absent_ok(word, feedback) ==
    \A c \in absent_letters(feedback) : ~In(c, word)

\* filter_words: the words it returns, as a set.  Python returns a list, in
\* row order for an empty log and in the arbitrary order of list(set(...))
\* otherwise; ListsOf below gives the orders.
filter_words(word_list, feedback) ==
    LET words == { lower(word_list[i].word) : i \in DOMAIN word_list }
    IN  IF feedback = << >>
        THEN words
        ELSE { word \in words : /\ correct_ok(word, feedback)
                                /\ present_ok(word, feedback)
                                /\ absent_ok(word, feedback) }

\* The lists that hold exactly the words of the set S, once each.
ListsOf(S) ==
    { l \in [1..Cardinality(S) -> S] : Range(l) = S }


\* The keys of word_freq: the lower-cased words of the rows that are among
\* the candidates.
word_freq_keys(word_list, cands) ==
    { w \in { lower(word_list[i].word) : i \in DOMAIN word_list } : w \in Range(cands) }

\* word_freq is a dict filled in row order: a word's value is the frequency
\* of its last row ...
word_freq(word_list, w) ==
    word_list[MaxOf({ i \in DOMAIN word_list : lower(word_list[i].word) = w })].frequency

\* ... and its place among the keys is that of its first row.
key_order(word_list, w) ==
    MinOf({ i \in DOMAIN word_list : lower(word_list[i].word) = w })

\* min(word_freq, key=word_freq.get): the first key that has the least value.
min_key(word_list, cands) ==
    CHOOSE w \in word_freq_keys(word_list, cands) :
        \A v \in word_freq_keys(word_list, cands) :
            \/ word_freq(word_list, v) > word_freq(word_list, w)
            \/ /\ word_freq(word_list, v) = word_freq(word_list, w)
               /\ key_order(word_list, v) >= key_order(word_list, w)

\* max(word_freq, key=word_freq.get): the first key that has the greatest
\* value.
max_key(word_list, cands) ==
    CHOOSE w \in word_freq_keys(word_list, cands) :
        \A v \in word_freq_keys(word_list, cands) :
            \/ word_freq(word_list, v) < word_freq(word_list, w)
            \/ /\ word_freq(word_list, v) = word_freq(word_list, w)
               /\ key_order(word_list, v) >= key_order(word_list, w)

\* get_best_guess with min in the place of max.
get_best_guess_lowest(word_list, cands) ==
    IF cands = << >> THEN << >>
    ELSE IF word_freq_keys(word_list, cands) # {}
         THEN min_key(word_list, cands)
         ELSE cands[1]

\* get_best_guess answering an empty list with the starting word.
get_best_guess_default(word_list, cands) ==
    IF cands = << >> THEN STARTING_WORD
    ELSE IF word_freq_keys(word_list, cands) # {}
         THEN max_key(word_list, cands)
         ELSE cands[1]

\* get_best_guess: "" for an empty list; the key of word_freq with the
\* greatest value; candidates[0] when word_freq is empty.
get_best_guess(word_list, cands) ==
    IF cands = << >> THEN << >>
    ELSE IF word_freq_keys(word_list, cands) # {}
         THEN max_key(word_list, cands)
         ELSE cands[1]

\* ------------------------------------------------------ the game page

\* The tiles the page shows for a guess, by the game's scoring of it against
\* the hidden answer: a letter in its place is correct; any other occurrence
\* is present while the answer holds more of the letter than the guess has
\* matched in place or marked present further left, and absent otherwise.
\* _get_row_feedback reads one entry per tile, the letter lower-cased.
Score(guess, answer) ==
    LET n == Len(guess)
        green(c) == Cardinality({ j \in 1..n : guess[j] = c /\ answer[j] = c })
        total(c) == Cardinality({ j \in 1..n : answer[j] = c })
        before(i) == Cardinality({ j \in 1..(i - 1) :
                                     guess[j] = guess[i] /\ answer[j] # guess[j] })
        status(i) == IF guess[i] = answer[i] THEN "correct"
                     ELSE IF total(guess[i]) - green(guess[i]) - before(i) > 0
                          THEN "present"
                          ELSE "absent"
    IN  [ i \in 1..n |->
            [pos |-> i - 1, letter |-> LowerChar(guess[i]), status |-> status(i)] ]

\* _wait_for_animation's all_correct: every tile of the row is correct.
all_correct(feedback) ==
    \A i \in DOMAIN feedback : feedback[i].status = "correct"

\* ---------------------------------------------------------------- state

VARIABLES
    word_file,     \* the rows of word_frequency.csv
    word_list,     \* WordleFilter.word_list
    pc,            \* where the client, or main(), is
    all_feedback,  \* the accumulated feedback log
    filtered,      \* filter_words has been called
    candidates,    \* what the last call of filter_words returned
    cand_list,     \* the list the last call of get_best_guess was given
    best_word,     \* what the last call of get_best_guess returned
    answer,        \* the game's hidden answer (main() only)
    row,           \* main()'s row
    guesses        \* the words main() has typed and entered, in order

vars == <<word_file, word_list, pc, all_feedback, filtered, candidates,
          cand_list, best_word, answer, row, guesses>>

\* The file of the filter_words client.  filter_words decides each row by
\* itself, so the client with the long logs uses one file: every pool row,
\* and words that hold only one, or none, of the letters of FbLetters.
FilterFile ==
    << [word |-> stall, frequency |-> 50],
       [word |-> stale, frequency |-> 10],
       [word |-> Stale, frequency |-> 50],
       [word |-> least, frequency |-> 50],
       [word |-> slate, frequency |-> 20],
       [word |-> tea,   frequency |-> 99],
       [word |-> taste, frequency |-> 5],
       [word |-> latte, frequency |-> 5],
       [word |-> eaten, frequency |-> 5] >>

\* The game reports as correct at a position the answer's letter there, so
\* a log never holds two correct entries for one position with two letters.
WellFormed(feedback) ==
    \A i, j \in DOMAIN feedback :
        (/\ feedback[i].status = "correct"
         /\ feedback[j].status = "correct"
         /\ feedback[i].pos = feedback[j].pos)
        => feedback[i].letter = feedback[j].letter

MainPcs == {"start", "loop", "solved", "done", "error"}

Terminal == {"solved", "done", "error"}

Init ==
    /\ \/ pc = "filter" /\ word_file = FilterFile /\ answer = << >>
       \/ pc = "guess" /\ word_file \in WordFiles /\ answer = << >>
       \/ pc = "start" /\ word_file \in WordFiles /\ answer \in Answers
    /\ word_list = _load_words(word_file)
    /\ all_feedback = << >>
    /\ filtered = FALSE
    /\ candidates = {}
    /\ cand_list = << >>
    /\ best_word = << >>
    /\ row = 1
    /\ guesses = << >>

\* ------------------------------------------------- the filter client

\* The client extends the log by `new` (no entry, or one) and calls
\* filter_words with the whole log, as main() does at lines 340 and 330.
FilterWords(new) ==
    /\ pc = "filter"
    /\ Len(all_feedback) + Len(new) <= MaxLog
    /\ WellFormed(all_feedback \o new)
    /\ all_feedback' = all_feedback \o new
    /\ candidates' = filter_words(word_list, all_feedback')
    /\ filtered' = TRUE
    /\ UNCHANGED <<word_file, word_list, pc, cand_list, best_word, answer,
                   row, guesses>>

\* ---------------------------------------------- the best-guess client

\* The first turn: filter_words with no feedback yet.
FirstCandidates ==
    /\ pc = "guess"
    /\ candidates' = filter_words(word_list, all_feedback)
    /\ filtered' = TRUE
    /\ pc' = "rank"
    /\ UNCHANGED <<word_file, word_list, all_feedback, cand_list, best_word,
                   answer, row, guesses>>

\* get_best_guess on a list: the candidates in some order, or any list.
GetBestGuess(cands) ==
    /\ pc = "rank"
    /\ cand_list' = cands
    /\ best_word' = get_best_guess(word_list, cands)
    /\ pc' = "ranked"
    /\ UNCHANGED <<word_file, word_list, all_feedback, filtered, candidates,
                   answer, row, guesses>>

\* -------------------------------------------------------------- main()

\* make_guess(word, row) and the extend that follows it.  The word is typed
\* and entered; then either the tiles never all show a status and
\* _wait_for_animation raises TimeoutError, or they are all correct and it
\* exits the program, or the row's feedback is appended to the log.
PlayGuess(word, next_pc) ==
    \E shown \in BOOLEAN :
        /\ guesses' = Append(guesses, word)
        /\ IF ~shown
           THEN pc' = "error" /\ UNCHANGED all_feedback
           ELSE IF all_correct(Score(word, answer))
                THEN pc' = "solved" /\ UNCHANGED all_feedback
                ELSE /\ all_feedback' = all_feedback \o Score(word, answer)
                     /\ pc' = next_pc

\* Lines 323-326: the first guess is the starting word.
FirstGuess ==
    /\ pc = "start"
    /\ PlayGuess(STARTING_WORD, "loop")
    /\ row' = 2
    /\ UNCHANGED <<word_file, word_list, filtered, candidates, cand_list,
                   best_word, answer>>

\* The loop's turn with one row too many.
LoopTurnExtraRow ==
    /\ pc = "loop"
    /\ filtered' = TRUE
    /\ candidates' = filter_words(word_list, all_feedback)
    /\ IF candidates' = {}
       THEN /\ pc' = "done"
            /\ UNCHANGED <<all_feedback, cand_list, best_word, row, guesses>>
       ELSE \E cands \in ListsOf(candidates') :
              /\ cand_list' = cands
              /\ best_word' = get_best_guess(word_list, cands)
              /\ PlayGuess(best_word',
                           IF row = MAX_ATTEMPTS + 1 THEN "done" ELSE "loop")
              /\ row' = row + 1
    /\ UNCHANGED <<word_file, word_list, answer>>

\* Lines 329-340: one turn of `for row in range(2, MAX_ATTEMPTS + 1)`.
\* The list filter_words returns is in an arbitrary order.
LoopTurn ==
    /\ pc = "loop"
    /\ filtered' = TRUE
    /\ candidates' = filter_words(word_list, all_feedback)
    /\ IF candidates' = {}
       THEN /\ pc' = "done"
            /\ UNCHANGED <<all_feedback, cand_list, best_word, row, guesses>>
       ELSE \E cands \in ListsOf(candidates') :
              /\ cand_list' = cands
              /\ best_word' = get_best_guess(word_list, cands)
              /\ IF Len(best_word') # WORD_LENGTH
                 THEN /\ pc' = "error"
                      /\ UNCHANGED <<all_feedback, row, guesses>>
                 ELSE /\ PlayGuess(best_word',
                                   IF row = MAX_ATTEMPTS THEN "done" ELSE "loop")
                      /\ row' = row + 1
    /\ UNCHANGED <<word_file, word_list, answer>>

MainNext == FirstGuess \/ LoopTurn

Next ==
    \/ \E new \in SeqsUpTo(Entries, 1) : FilterWords(new)
    \/ FirstCandidates
    \/ \E cands \in SeqsUpTo(CandPool, MaxCands) \cup ListsOf(candidates) :
         GetBestGuess(cands)
    \/ FirstGuess
    \/ LoopTurn

Spec == Init /\ [][Next]_vars

\* main() alone, run to its end: each guess returns, raises or exits in
\* bounded time (the waits of make_guess time out).
GameInit == Init /\ pc = "start"

GameSpec == GameInit /\ [][MainNext]_vars /\ WF_vars(MainNext)

\* ---------------------------------------------------------- properties

\* The lower-cased words of the rows of the file that have WORD_LENGTH
\* characters.
CorpusWords ==
    { lower(r.word) : r \in { q \in Range(word_file) : Len(q.word) = WORD_LENGTH } }

\* A word's corpus frequency: that of the last row of the file that holds it.
CorpusFreq(w) ==
    word_file[MaxOf({ i \in DOMAIN word_file : lower(word_file[i].word) = w })].frequency

HasEntry(feedback, c, statuses) ==
    \E i \in DOMAIN feedback :
        feedback[i].letter = c /\ feedback[i].status \in statuses

\* The words the three rules of the feedback log leave.
Consistent(feedback) ==
    { w \in CorpusWords :
        /\ \A i \in DOMAIN feedback :
             feedback[i].status = "correct"
               => w[feedback[i].pos + 1] = feedback[i].letter
        /\ \A i \in DOMAIN feedback :
             feedback[i].status = "present"
               => /\ In(feedback[i].letter, w)
                  /\ w[feedback[i].pos + 1] # feedback[i].letter
        /\ \A i \in DOMAIN w :
             ~ (/\ HasEntry(feedback, w[i], {"absent"})
                /\ ~HasEntry(feedback, w[i], {"correct", "present"})) }

Prefix(feedback, k) == SubSeq(feedback, 1, k)

\* C2, as claimed: whenever the log F2 is a log F1 plus more entries,
\* filter_words(F2) is a subset of filter_words(F1).
C2_Monotonic ==
    (pc = "filter" /\ filtered) =>
        \A k \in 0..Len(all_feedback) :
            candidates \subseteq filter_words(word_list, Prefix(all_feedback, k))

\* No letter that F1 marks absent and nowhere correct or present has a
\* correct or present entry in F2.
NoLetterRevived(F1, F2) ==
    \A c \in known_letters(F2) \ known_letters(F1) : ~HasEntry(F1, c, {"absent"})

\* C2, amended: whenever the log F2 is a log F1 plus more entries, and the
\* added entries give no correct or present entry to a letter that F1 marks
\* absent and nowhere correct or present, filter_words(F2) is a subset of
\* filter_words(F1).
C2_MonotonicUnlessRevived ==
    \A k \in 0..Len(all_feedback) :
        NoLetterRevived(Prefix(all_feedback, k), all_feedback) =>
            /\ filter_words(word_list, all_feedback)
                 \subseteq filter_words(word_list, Prefix(all_feedback, k))
            /\ (pc = "filter" /\ filtered) =>
                 candidates \subseteq filter_words(word_list, Prefix(all_feedback, k))

C2_Witness ==
    /\ pc = "filter" /\ filtered
    /\ Len(all_feedback) >= 2
    /\ NoLetterRevived(Prefix(all_feedback, 1), all_feedback)
    /\ candidates # {}
    /\ candidates # filter_words(word_list, Prefix(all_feedback, 1))
    /\ filter_words(word_list, Prefix(all_feedback, 1)) # CorpusWords

\* The log without the absent entries of the letters that have a correct or
\* present entry.
WithoutOverruledAbsent(feedback) ==
    SelectSeq(feedback,
              LAMBDA f : ~(f.status = "absent" /\ f.letter \in known_letters(feedback)))

P6Log ==
    << [pos |-> 0, letter |-> "s", status |-> "present"],
       [pos |-> 3, letter |-> "s", status |-> "absent"] >>

\* C3: the absent entries of a letter that has a correct or present entry
\* eliminate no word: filter_words returns the same with and without them;
\* and with the log [(0,'s',present), (3,'s',absent)] every corpus word with
\* exactly one 's', not at position 0, survives.
C3_TieBreak ==
    /\ filter_words(word_list, all_feedback)
         = filter_words(word_list, WithoutOverruledAbsent(all_feedback))
    /\ (pc = "filter" /\ filtered) =>
         /\ candidates = filter_words(word_list, WithoutOverruledAbsent(all_feedback))
         /\ all_feedback = P6Log =>
              \A w \in CorpusWords :
                  (Cardinality({ i \in DOMAIN w : w[i] = "s" }) = 1 /\ w[1] # "s")
                    => w \in candidates

C3_Witness ==
    /\ pc = "filter" /\ filtered
    /\ all_feedback = P6Log
    /\ least \in candidates
    /\ taste \in candidates

\* The logs that hold the same entries as the log: its permutations, and
\* the logs that repeat an entry in the place of a repeated one.
SameFacts(feedback) ==
    { g \in [1..Len(feedback) -> Range(feedback)] : Range(g) = Range(feedback) }

C5_BestGuess ==
    (pc \in {"ranked"} \cup MainPcs /\ cand_list # << >>) =>
        /\ best_word \in Range(cand_list)
        /\ Range(cand_list) \subseteq CorpusWords =>
             \A c \in Range(cand_list) : CorpusFreq(best_word) >= CorpusFreq(c)

C5_Witness ==
    /\ pc = "ranked"
    /\ Len(cand_list) = 2
    /\ Range(cand_list) \subseteq CorpusWords
    /\ best_word = cand_list[2]
    /\ CorpusFreq(cand_list[2]) > CorpusFreq(cand_list[1])

\* C6: with an empty log filter_words returns, as a set, the lower-cased
\* corpus words of WORD_LENGTH characters.
C6_EmptyFeedback ==
    /\ filter_words(word_list, << >>) = CorpusWords
    /\ (filtered /\ all_feedback = << >> /\ pc \in {"filter", "rank", "ranked"})
         => candidates = CorpusWords

C6_Witness ==
    /\ pc = "rank"
    /\ \E i \in DOMAIN word_file : word_file[i].word = tea
    /\ \E i \in DOMAIN word_file : word_file[i].word = Stale
    /\ candidates = {stale}

\* C7: get_best_guess on an empty list returns the empty string, and in
\* main(), once filter_words has returned no word, no guess is played.
C7_EmptyIsTerminal ==
    /\ [](pc = "ranked" /\ cand_list = << >> => best_word = << >>)
    /\ [][(pc \in MainPcs /\ filtered /\ candidates = {}) => (guesses' = guesses)]_vars
    /\ [](pc \in MainPcs /\ filtered /\ candidates = {} => pc = "done")

C7_Witness ==
    /\ pc = "done"
    /\ filtered
    /\ candidates = {}
    /\ Len(guesses) < MAX_ATTEMPTS

Last(s) == s[Len(s)]

\* A turn of the loop plays no guess when filter_words of the whole log is
\* empty, and the best guess among its words otherwise.
TurnPlaysBestGuess ==
    pc = "loop" =>
        IF filter_words(word_list, all_feedback) = {}
        THEN guesses' = guesses /\ pc' = "done"
        ELSE /\ guesses' = Append(guesses, best_word')
             /\ best_word' \in filter_words(word_list, all_feedback)
             /\ \A cands \in ListsOf(filter_words(word_list, all_feedback)) :
                  best_word' = get_best_guess(word_list, cands)

\* A played guess ends the game when it fails, when it finds the word and
\* when it is the last attempt; otherwise its feedback is appended.
GuessOutcome ==
    (pc \in {"start", "loop"} /\ guesses' # guesses) =>
        \/ pc' = "error" /\ all_feedback' = all_feedback
        \/ /\ Last(guesses') = answer
           /\ pc' = "solved" /\ all_feedback' = all_feedback
        \/ /\ Last(guesses') # answer
           /\ all_feedback' = all_feedback \o Score(Last(guesses'), answer)
           /\ pc' = IF Len(guesses') = MAX_ATTEMPTS THEN "done" ELSE "loop"

\* C8: a game ends, after at most MAX_ATTEMPTS guesses.  The first guess is
\* the starting word; each later guess is the best guess among
\* filter_words of the whole log, to which the feedback of every guess has
\* been appended; a guess that finds the word, the last attempt and an empty
\* candidate set end the game, and no guess is played after the end.
C8_GameEnds ==
    /\ [](pc \in MainPcs => Len(guesses) <= MAX_ATTEMPTS)
    /\ [][(pc = "start") => (guesses' = <<STARTING_WORD>>)]_vars
    /\ [][TurnPlaysBestGuess]_vars
    /\ [][GuessOutcome]_vars
    /\ [][(pc \in Terminal) => (guesses' = guesses /\ pc' = pc)]_vars
    /\ [](pc \in {"start", "loop"} => <>(pc \in Terminal))

C8_Witness ==
    /\ pc = "done"
    /\ Len(guesses) = MAX_ATTEMPTS
    /\ candidates # {}

\* C9: main() never plays a word twice: a word that has been guessed and is
\* not the answer is not among filter_words of the log on a later turn.
C9_NoRepeatedGuess ==
    pc \in MainPcs =>
        /\ \A i, j \in DOMAIN guesses : i # j => guesses[i] # guesses[j]
        /\ pc = "loop" =>
             \A i \in DOMAIN guesses :
                 guesses[i] # answer
                   => guesses[i] \notin filter_words(word_list, all_feedback)

\* C10: when the hidden answer is a corpus word, it is among filter_words
\* of the log on every turn, so the candidate set is never empty.
C10_AnswerSurvives ==
    (pc \in MainPcs /\ answer \in CorpusWords) =>
        /\ answer \in filter_words(word_list, all_feedback)
        /\ filtered => answer \in candidates

C10_Witness ==
    /\ pc = "loop"
    /\ answer \in CorpusWords
    /\ filtered
    /\ answer \in candidates
    /\ \E i \in DOMAIN all_feedback :
         /\ all_feedback[i].status = "absent"
         /\ In(all_feedback[i].letter, answer)

=============================================================================
